---- MODULE Spec2Model ----
(***************************************************************************)
(* Order fulfilment of merjane-refacto-js: OrderService.processOrder walks *)
(* the line items of an order and ProductService.processProduct applies    *)
(* the per-type stock rules through ProductRepository, notifying through   *)
(* INotificationService.                                                   *)
(*                                                                         *)
(* Dates are milliseconds since an epoch (Date.getTime()); the instants    *)
(* the model draws are whole days, so that every strict/non-strict         *)
(* comparison of the code has its equality case.  The clock never goes     *)
(* back.  Every `new Date()` of a handler is its own sample: t1 is the     *)
(* sample of processSeasonalProduct / processExpirableProduct, t2 (>= t1)  *)
(* the one of handleSeasonalProduct / handleExpiredProduct.                *)
(***************************************************************************)
EXTENDS Integers, Sequences, FiniteSets, TLC

VARIABLES
    products,   \* the products table: id -> stored record
    orders,     \* the orders table joined with orders_to_products: id -> set of product ids
    clock,      \* the current time, in ms
    calls,      \* the processOrder call of each caller: where it stands, its loaded copies
    started,    \* how many processOrder calls were made so far
    last        \* what the most recent processProduct call was given and what it did
                \* (none since the latest processOrder call began)

vars == <<products, orders, clock, calls, started, last>>

----------------------------------------------------------------------------
(* Bounds *)

MaxAvailable == 2
MaxLeadTime == 2
MaxDay == 3
MaxCalls == 2

----------------------------------------------------------------------------
(* Constants of the program *)

MILLISECONDS_PER_DAY == 1000 * 60 * 60 * 24

NORMAL == "NORMAL"
SEASONAL == "SEASONAL"
EXPIRABLE == "EXPIRABLE"
PRODUCT_TYPE == {NORMAL, SEASONAL, EXPIRABLE}

\* a type string outside the enum (the column is plain text)
UnknownType == "UNKNOWN"

\* a null date column
Null == -1

\* an order id no order has
nonExistentOrderId == 999

Times == {d * MILLISECONDS_PER_DAY : d \in 0..MaxDay}

----------------------------------------------------------------------------
(* Product records *)

Product(id, name, type, available, leadTime, expiryDate, seasonStartDate, seasonEndDate) ==
    [id |-> id, name |-> name, type |-> type, available |-> available,
     leadTime |-> leadTime, expiryDate |-> expiryDate,
     seasonStartDate |-> seasonStartDate, seasonEndDate |-> seasonEndDate]

ProductNames == <<"USB Cable", "Butter", "Watermelon">>

NoProduct == Product(0, "", UnknownType, 0, 0, Null, Null, Null)

\* every record a product of the given id may be seeded with
ProductValues(id) ==
    LET Q == 0..MaxAvailable
        L == 0..MaxLeadTime
    IN  {Product(id, ProductNames[id], NORMAL, a, l, Null, Null, Null) : a \in Q, l \in L}
        \cup {Product(id, ProductNames[id], UnknownType, a, l, Null, Null, Null) :
                a \in Q, l \in L}
        \cup UNION {{Product(id, ProductNames[id], EXPIRABLE, a, l, x, Null, Null) :
                        a \in Q, l \in L} : x \in Times}
        \cup UNION {{Product(id, ProductNames[id], SEASONAL, a, l, Null, s[1], s[2]) :
                        a \in Q, l \in L} : s \in Times \X Times}

----------------------------------------------------------------------------
(* What a call does: repository calls, database writes, notifications *)

CallEvent(op, p) ==
    [kind |-> "call", op |-> op, product |-> p, name |-> "", leadTime |-> 0, date |-> Null]

WriteEvent(p) ==
    [kind |-> "write", op |-> "update", product |-> p, name |-> "", leadTime |-> 0,
     date |-> Null]

NotifyEvent(op, name, leadTime, date) ==
    [kind |-> "notify", op |-> op, product |-> NoProduct, name |-> name,
     leadTime |-> leadTime, date |-> date]

\* what may go wrong under a call: nothing, the database update rejects, the
\* notification service throws
NoFault == "none"
StorageFault == "storage"
SinkFault == "sink"

\* an execution: the in-memory product, the events so far, whether it threw and
\* in which operation, the fault it runs under, and whether it read the clock a
\* second time (the `new Date()` of handleSeasonalProduct / handleExpiredProduct)
ExecUnder(p, fault) ==
    [p |-> p, ev |-> <<>>, threw |-> FALSE, error |-> "", fault |-> fault,
     resampled |-> FALSE]

Exec(p) == ExecUnder(p, NoFault)

\* a side effect happens only while no exception is unwinding
Emit(e, event) == IF e.threw THEN e ELSE [e EXCEPT !.ev = Append(@, event)]

Resample(e) == [e EXCEPT !.resampled = TRUE]

Throw(e, op) == IF e.threw THEN e ELSE [e EXCEPT !.threw = TRUE, !.error = op]

----------------------------------------------------------------------------
(* ProductRepository *)

updateProduct(e) ==
    LET e1 == Emit(e, CallEvent("updateProduct", e.p))
    IN  IF e.fault = StorageFault
        THEN Throw(e1, "updateProduct")
        ELSE Emit(e1, WriteEvent(e.p))

\* variant: the in-memory record is decremented but never persisted
decrementStock_notPersisted(e) ==
    LET e1 == Emit(e, CallEvent("decrementStock", e.p))
    IN  [e1 EXCEPT !.p.available = @ - 1]

\* variant: the stock is counted up instead of down
decrementStock_increments(e) ==
    LET e1 == Emit(e, CallEvent("decrementStock", e.p))
    IN  IF e.threw THEN e ELSE updateProduct([e1 EXCEPT !.p.available = @ + 1])

decrementStock(e) ==
    LET e1 == Emit(e, CallEvent("decrementStock", e.p))
    IN  IF e.threw THEN e ELSE updateProduct([e1 EXCEPT !.p.available = @ - 1])

setOutOfStock(e) ==
    LET e1 == Emit(e, CallEvent("setOutOfStock", e.p))
    IN  IF e.threw THEN e ELSE updateProduct([e1 EXCEPT !.p.available = 0])

----------------------------------------------------------------------------
(* INotificationService *)

\* a call of the service: the notification is sent, or the service throws
Send(e, event) == IF e.fault = SinkFault THEN Throw(e, event.op) ELSE Emit(e, event)

sendDelayNotification(e, leadTime, productName) ==
    Send(e, NotifyEvent("sendDelayNotification", productName, leadTime, Null))

sendOutOfStockNotification(e, productName) ==
    Send(e, NotifyEvent("sendOutOfStockNotification", productName, 0, Null))

sendExpirationNotification(e, productName, expiryDate) ==
    Send(e, NotifyEvent("sendExpirationNotification", productName, 0, expiryDate))

----------------------------------------------------------------------------
(* ProductService *)

\* variant: the record is persisted but the notification is forgotten
notifyDelay_silent(leadTime, e) ==
    updateProduct([e EXCEPT !.p.leadTime = leadTime])

\* variant: the record is persisted once more after the notification
notifyDelay_savedTwice(leadTime, e) ==
    LET e1 == [e EXCEPT !.p.leadTime = leadTime]
        e2 == updateProduct(e1)
    IN  updateProduct(sendDelayNotification(e2, leadTime, e2.p.name))

\* variant: the lead time is cleared once the delay is announced
notifyDelay_clearsLeadTime(leadTime, e) ==
    LET e1 == [e EXCEPT !.p.leadTime = 0]
        e2 == updateProduct(e1)
    IN  sendDelayNotification(e2, leadTime, e2.p.name)

\* variant: the notification is sent before the record is persisted
notifyDelay_notifiesFirst(leadTime, e) ==
    LET e1 == [e EXCEPT !.p.leadTime = leadTime]
    IN  updateProduct(sendDelayNotification(e1, leadTime, e1.p.name))

notifyDelay(leadTime, e) ==
    LET e1 == [e EXCEPT !.p.leadTime = leadTime]
        e2 == updateProduct(e1)
    IN  sendDelayNotification(e2, leadTime, e2.p.name)

\* variant: a restock on the very day the season ends counts as too late (>= for >)
handleSeasonalProduct_restockGe(e, currentDate) ==
    LET restockDate == currentDate + e.p.leadTime * MILLISECONDS_PER_DAY
    IN  IF restockDate >= e.p.seasonEndDate
        THEN setOutOfStock(sendOutOfStockNotification(e, e.p.name))
        ELSE IF e.p.seasonStartDate > currentDate
        THEN updateProduct(sendOutOfStockNotification(e, e.p.name))
        ELSE notifyDelay(e.p.leadTime, e)

\* variant: the too-late branch persists the record without zeroing the stock
handleSeasonalProduct_notZeroed(e, currentDate) ==
    LET restockDate == currentDate + e.p.leadTime * MILLISECONDS_PER_DAY
    IN  IF restockDate > e.p.seasonEndDate
        THEN updateProduct(sendOutOfStockNotification(e, e.p.name))
        ELSE IF e.p.seasonStartDate > currentDate
        THEN updateProduct(sendOutOfStockNotification(e, e.p.name))
        ELSE notifyDelay(e.p.leadTime, e)

\* variant: the not-started branch zeroes the stock like the too-late branch
handleSeasonalProduct_alwaysZeroed(e, currentDate) ==
    LET restockDate == currentDate + e.p.leadTime * MILLISECONDS_PER_DAY
    IN  IF restockDate > e.p.seasonEndDate
        THEN setOutOfStock(sendOutOfStockNotification(e, e.p.name))
        ELSE IF e.p.seasonStartDate > currentDate
        THEN setOutOfStock(sendOutOfStockNotification(e, e.p.name))
        ELSE notifyDelay(e.p.leadTime, e)

handleSeasonalProduct(e, currentDate) ==
    LET restockDate == currentDate + e.p.leadTime * MILLISECONDS_PER_DAY
    IN  IF restockDate > e.p.seasonEndDate
        THEN setOutOfStock(sendOutOfStockNotification(e, e.p.name))
        ELSE IF e.p.seasonStartDate > currentDate
        THEN updateProduct(sendOutOfStockNotification(e, e.p.name))
        ELSE notifyDelay(e.p.leadTime, e)

\* variant: the expired product is persisted without zeroing the stock
handleExpiredProduct_notZeroed(e, currentDate) ==
    IF e.p.available > 0 /\ e.p.expiryDate > currentDate
    THEN decrementStock(e)
    ELSE updateProduct(sendExpirationNotification(e, e.p.name, e.p.expiryDate))

handleExpiredProduct(e, currentDate) ==
    IF e.p.available > 0 /\ e.p.expiryDate > currentDate
    THEN decrementStock(e)
    ELSE setOutOfStock(sendExpirationNotification(e, e.p.name, e.p.expiryDate))

\* variant: the stock test is off by one (>= for >)
processNormalProduct_stockGe(e) ==
    IF e.p.available >= 0
    THEN decrementStock(e)
    ELSE IF e.p.leadTime > 0
    THEN notifyDelay(e.p.leadTime, e)
    ELSE e

\* variant: the lead-time test is off by one (>= for >)
processNormalProduct_leadGe(e) ==
    IF e.p.available > 0
    THEN decrementStock(e)
    ELSE IF e.p.leadTime >= 0
    THEN notifyDelay(e.p.leadTime, e)
    ELSE e

processNormalProduct(e) ==
    IF e.p.available > 0
    THEN decrementStock(e)
    ELSE IF e.p.leadTime > 0
    THEN notifyDelay(e.p.leadTime, e)
    ELSE e

\* variant: the two season comparisons are swapped
processSeasonalProduct_swapped(e, t1, t2) ==
    LET currentDate == t1
        inSeason == currentDate < e.p.seasonStartDate /\ currentDate > e.p.seasonEndDate
    IN  IF inSeason /\ e.p.available > 0
        THEN decrementStock(e)
        ELSE handleSeasonalProduct(Resample(e), t2)

processSeasonalProduct(e, t1, t2) ==
    LET currentDate == t1
        inSeason == currentDate > e.p.seasonStartDate /\ currentDate < e.p.seasonEndDate
    IN  IF inSeason /\ e.p.available > 0
        THEN decrementStock(e)
        ELSE handleSeasonalProduct(Resample(e), t2)

\* variant: the in-stock, not-expired branch zeroes the stock
processExpirableProduct_zeroed(e, t1, t2) ==
    LET currentDate == t1
        notExpired == e.p.expiryDate > currentDate
    IN  IF e.p.available > 0 /\ notExpired
        THEN setOutOfStock(e)
        ELSE handleExpiredProduct(Resample(e), t2)

processExpirableProduct(e, t1, t2) ==
    LET currentDate == t1
        notExpired == e.p.expiryDate > currentDate
    IN  IF e.p.available > 0 /\ notExpired
        THEN decrementStock(e)
        ELSE handleExpiredProduct(Resample(e), t2)

\* variant: productHandlers has no entry for SEASONAL
Dispatch_noSeasonalHandler(e, t1, t2) ==
    CASE e.p.type = NORMAL -> processNormalProduct(e)
      [] e.p.type = EXPIRABLE -> processExpirableProduct(e, t1, t2)
      [] OTHER -> Throw(e, "processProduct")

\* variant: a type without a handler is handled as NORMAL
Dispatch_defaultsToNormal(e, t1, t2) ==
    CASE e.p.type = NORMAL -> processNormalProduct(e)
      [] e.p.type = SEASONAL -> processSeasonalProduct(e, t1, t2)
      [] e.p.type = EXPIRABLE -> processExpirableProduct(e, t1, t2)
      [] OTHER -> processNormalProduct(e)

\* productHandlers[product.type], or the throw when there is none
Dispatch(e, t1, t2) ==
    CASE e.p.type = NORMAL -> processNormalProduct(e)
      [] e.p.type = SEASONAL -> processSeasonalProduct(e, t1, t2)
      [] e.p.type = EXPIRABLE -> processExpirableProduct(e, t1, t2)
      [] OTHER -> Throw(e, "processProduct")

processProduct(product, t1, t2) == Dispatch(Exec(product), t1, t2)

\* processProduct while the database or the notification service is failing
processProductUnder(product, t1, t2, fault) == Dispatch(ExecUnder(product, fault), t1, t2)

----------------------------------------------------------------------------
(* The database *)

\* variant: the UPDATE has no WHERE clause
RECURSIVE ApplyWrites_noWhere(_, _)
ApplyWrites_noWhere(table, ev) ==
    IF ev = <<>> THEN table
    ELSE LET w == Head(ev)
             next == IF w.kind = "write"
                     THEN [id \in DOMAIN table |-> [w.product EXCEPT !.id = id]]
                     ELSE table
         IN  ApplyWrites_noWhere(next, Tail(ev))

\* UPDATE products SET ... WHERE id = product.id, for every write of ev in turn
RECURSIVE ApplyWrites(_, _)
ApplyWrites(table, ev) ==
    IF ev = <<>> THEN table
    ELSE LET w == Head(ev)
             next == IF w.kind = "write" /\ w.product.id \in DOMAIN table
                     THEN [table EXCEPT ![w.product.id] = w.product]
                     ELSE table
         IN  ApplyWrites(next, Tail(ev))

\* the sequences of the elements of S, each once
Perms(S) == {s \in [1..Cardinality(S) -> S] : \A i, j \in DOMAIN s : i # j => s[i] # s[j]}

\* variant: an id without an order yields an order without line items
findOrderWithProducts_emptyForMissing(orderId) ==
    IF orderId \in DOMAIN orders
    THEN {[i \in DOMAIN s |-> products[s[i]]] : s \in Perms(orders[orderId])}
    ELSE {<<>>}

\* variant: an order without line items is not found (an inner join)
findOrderWithProducts_innerJoin(orderId) ==
    IF orderId \in DOMAIN orders /\ orders[orderId] # {}
    THEN {[i \in DOMAIN s |-> products[s[i]]] : s \in Perms(orders[orderId])}
    ELSE {}

\* findOrderWithProducts: the line items, in an order the query does not fix
findOrderWithProducts(orderId) ==
    IF orderId \in DOMAIN orders
    THEN {[i \in DOMAIN s |-> products[s[i]]] : s \in Perms(orders[orderId])}
    ELSE {}

----------------------------------------------------------------------------
(* Initial states *)

\* a processOrder call: where it stands (pc), the order asked for, its in-memory
\* line items and the next one to process, what it returned or what made it
\* fail; and for reading it
\* afterwards: the line items as loaded, the table as it was at load, and what
\* each processProduct call was given and did, in turn
IdleCall == [pc |-> "idle", orderId |-> 0, items |-> <<>>, idx |-> 0, result |-> 0,
             error |-> "", loaded |-> <<>>, before |-> <<>>, trace |-> <<>>]

NoLast == [acted |-> FALSE, caller |-> "", given |-> NoProduct, t1 |-> 0, t2 |-> 0,
           ev |-> <<>>, threw |-> FALSE, error |-> ""]

\* one product of any type and any field values, in an order of its own
InitSingle ==
    /\ products \in {(1 :> p) : p \in ProductValues(1)}
    /\ orders = (1 :> {1})

\* a NORMAL, an EXPIRABLE and a SEASONAL product as the seed script dates them
\* (expiry ahead, season open around the middle of the horizon), in stock or not
SeedValues(id) ==
    LET Q == {0, MaxAvailable}
        L == {0, MaxLeadTime}
        day == MILLISECONDS_PER_DAY
    IN  CASE id = 1 -> {Product(1, ProductNames[1], NORMAL, a, l, Null, Null, Null) :
                          a \in Q, l \in L}
          [] id = 2 -> {Product(2, ProductNames[2], EXPIRABLE, a, l, 3 * day, Null, Null) :
                          a \in Q, l \in L}
          [] id = 3 -> {Product(3, ProductNames[3], SEASONAL, a, l, Null, day, 3 * day) :
                          a \in Q, l \in L}

SeedCatalogs ==
    {c \in [1..3 -> UNION {SeedValues(i) : i \in 1..3}] : \A i \in 1..3 : c[i] \in SeedValues(i)}

SeedOrders == (1 :> {1, 2, 3}) @@ (2 :> {}) @@ (3 :> {3, 1})

InitSeeded ==
    /\ products \in SeedCatalogs
    /\ orders = SeedOrders

InitRest ==
    /\ clock = 0
    /\ started = 0
    /\ last = NoLast

Init ==
    /\ InitSingle \/ InitSeeded
    /\ calls = ("a" :> IdleCall)
    /\ InitRest

\* the seeded catalog, as it is or with the type of its second product corrupted;
\* one more processOrder call is to come
InitFaults ==
    /\ products \in SeedCatalogs \cup
                    {[c EXCEPT ![2].type = UnknownType] : c \in SeedCatalogs}
    /\ orders = SeedOrders
    /\ calls = ("a" :> IdleCall)
    /\ clock \in Times
    /\ started = MaxCalls - 1
    /\ last = NoLast

\* one seeded product of any of the three types, held by two orders; two
\* requests are to come and may overlap
InitConcurrent ==
    /\ products \in {(1 :> [p EXCEPT !.id = 1, !.name = ProductNames[1]]) :
                        p \in UNION {SeedValues(i) : i \in 1..3}}
    /\ orders = (1 :> {1}) @@ (2 :> {1})
    /\ calls = ("a" :> IdleCall) @@ ("b" :> IdleCall)
    /\ clock \in Times
    /\ started = MaxCalls - 2
    /\ last = NoLast

\* the requests being served
Callers == DOMAIN calls

----------------------------------------------------------------------------
(* Actions *)

\* time passes
Tick ==
    /\ \E t \in Times : t > clock /\ clock' = t
    /\ UNCHANGED <<products, orders, calls, started, last>>

\* processOrder up to its loop: load the order, or fail when there is none
Load(c, orderId) ==
    /\ started < MaxCalls
    /\ started' = started + 1
    /\ IF findOrderWithProducts(orderId) = {}
       THEN calls' = [calls EXCEPT ![c] =
                        [IdleCall EXCEPT !.pc = "failed", !.orderId = orderId,
                                         !.error = "Order not found",
                                         !.before = products]]
       ELSE \E items \in findOrderWithProducts(orderId) :
                calls' = [calls EXCEPT ![c] =
                            [IdleCall EXCEPT !.pc = "running", !.orderId = orderId,
                                             !.items = items, !.idx = 1,
                                             !.loaded = items, !.before = products]]
    /\ last' = NoLast
    /\ UNCHANGED <<products, orders, clock>>

\* calls run one after another: a call starts when no other is in progress
ProcessOrderLoad(c, orderId) ==
    /\ \A d \in Callers : calls[d].pc # "running"
    /\ Load(c, orderId)

\* requests are served as they come: a call starts while another is suspended
ProcessOrderLoadConcurrent(c, orderId) ==
    /\ calls[c].pc # "running"
    /\ Load(c, orderId)

\* variant: the loop catches the exception of processProduct and goes on
Settle_swallows(c, t2, e) ==
    LET i == calls[c].idx
        given == calls[c].items[i]
        done == [given |-> given, t1 |-> clock, t2 |-> t2, ev |-> e.ev,
                 threw |-> e.threw, error |-> e.error]
    IN  /\ e.resampled \/ t2 = clock
        /\ products' = ApplyWrites(products, e.ev)
        /\ clock' = t2
        /\ calls' = [calls EXCEPT ![c].items[i] = e.p,
                                  ![c].idx = @ + 1,
                                  ![c].trace = Append(@, done)]
        /\ last' = [acted |-> TRUE, caller |-> c, given |-> given, t1 |-> clock,
                    t2 |-> t2, ev |-> e.ev, threw |-> e.threw, error |-> e.error]

\* what one processProduct execution e leaves behind: the writes reach the table,
\* the loop goes on or the exception ends the call.  t2 is the second reading of
\* the clock, when e made one.
Settle(c, t2, e) ==
    LET i == calls[c].idx
        given == calls[c].items[i]
        done == [given |-> given, t1 |-> clock, t2 |-> t2, ev |-> e.ev,
                 threw |-> e.threw, error |-> e.error]
    IN  /\ e.resampled \/ t2 = clock
        /\ products' = ApplyWrites(products, e.ev)
        /\ clock' = t2
        /\ calls' = [calls EXCEPT ![c].items[i] = e.p,
                                  ![c].idx = IF e.threw THEN @ ELSE @ + 1,
                                  ![c].pc = IF e.threw THEN "failed" ELSE @,
                                  ![c].error = e.error,
                                  ![c].trace = Append(@, done)]
        /\ last' = [acted |-> TRUE, caller |-> c, given |-> given, t1 |-> clock,
                    t2 |-> t2, ev |-> e.ev, threw |-> e.threw, error |-> e.error]

\* variant: the loop reads the product again from the table before processing it
ProcessLineItem_rereads(c) ==
    /\ calls[c].pc = "running"
    /\ calls[c].idx <= Len(calls[c].items)
    /\ \E t2 \in {t \in Times : t >= clock} :
          Settle(c, t2, processProduct(products[calls[c].items[calls[c].idx].id], clock, t2))
    /\ UNCHANGED <<orders, started>>

\* one turn of the loop: processProduct on the next line item
ProcessLineItem(c) ==
    /\ calls[c].pc = "running"
    /\ calls[c].idx <= Len(calls[c].items)
    /\ \E t2 \in {t \in Times : t >= clock} :
          Settle(c, t2, processProduct(calls[c].items[calls[c].idx], clock, t2))
    /\ UNCHANGED <<orders, started>>

\* one turn of the loop while the database or the notification service fails
ProcessLineItemFailing(c) ==
    /\ calls[c].pc = "running"
    /\ calls[c].idx <= Len(calls[c].items)
    /\ \E t2 \in {t \in Times : t >= clock}, fault \in {StorageFault, SinkFault} :
          Settle(c, t2, processProductUnder(calls[c].items[calls[c].idx], clock, t2, fault))
    /\ UNCHANGED <<orders, started>>

\* variant: the return sits inside the loop, after the first line item
ProcessOrderReturn_insideLoop(c) ==
    /\ calls[c].pc = "running"
    /\ calls[c].idx > 1
    /\ calls' = [calls EXCEPT ![c].pc = "returned", ![c].result = calls[c].orderId]
    /\ UNCHANGED <<products, orders, clock, started, last>>

\* the loop is over: return {orderId: order.id}
ProcessOrderReturn(c) ==
    /\ calls[c].pc = "running"
    /\ calls[c].idx > Len(calls[c].items)
    /\ calls' = [calls EXCEPT ![c].pc = "returned", ![c].result = calls[c].orderId]
    /\ UNCHANGED <<products, orders, clock, started, last>>

Requests == DOMAIN orders \cup {nonExistentOrderId}

\* the loop of processOrder as a whole, every clock reading being t: the table
\* it leaves, the events in turn, and whether a processProduct call threw, which
\* ends the loop
RECURSIVE RunOrder(_, _, _)
RunOrder(table, items, t) ==
    IF items = <<>> THEN [table |-> table, ev |-> <<>>, threw |-> FALSE]
    ELSE LET e == processProduct(Head(items), t, t)
             stored == ApplyWrites(table, e.ev)
             rest == RunOrder(stored, Tail(items), t)
         IN  IF e.threw THEN [table |-> stored, ev |-> e.ev, threw |-> TRUE]
             ELSE [table |-> rest.table, ev |-> e.ev \o rest.ev, threw |-> rest.threw]

Next ==
    \/ Tick
    \/ \E c \in Callers, orderId \in DOMAIN orders \cup {nonExistentOrderId} :
          ProcessOrderLoad(c, orderId)
    \/ \E c \in Callers : ProcessLineItem(c)
    \/ \E c \in Callers : ProcessOrderReturn(c)

Spec == Init /\ [][Next]_vars

\* the same calls, with the database or the notification service failing at times
NextFaults ==
    \/ Next
    \/ \E c \in Callers : ProcessLineItemFailing(c)

SpecFaults == InitFaults /\ [][NextFaults]_vars

\* requests that overlap
NextConcurrent ==
    \/ Tick
    \/ \E c \in Callers, orderId \in Requests : ProcessOrderLoadConcurrent(c, orderId)
    \/ \E c \in Callers : ProcessLineItem(c)
    \/ \E c \in Callers : ProcessOrderReturn(c)

SpecConcurrent == InitConcurrent /\ [][NextConcurrent]_vars

\* the event loop runs a call that can go on
Fairness == WF_vars(ProcessLineItem("a") \/ ProcessOrderReturn("a"))

SpecLive == InitFaults /\ [][Next]_vars /\ Fairness

----------------------------------------------------------------------------
(* Reading the most recent processProduct call *)

OfKind(ev, kind) == SelectSeq(ev, LAMBDA x : x.kind = kind)

Notifications == OfKind(last.ev, "notify")
RepositoryCalls == OfKind(last.ev, "call")
Writes == OfKind(last.ev, "write")

Sent(op) == \E i \in DOMAIN last.ev : last.ev[i].kind = "notify" /\ last.ev[i].op = op
Called(op) == \E i \in DOMAIN last.ev : last.ev[i].kind = "call" /\ last.ev[i].op = op

\* the stored record of the product the call was given
Stored == products[last.given.id]

Processed(type) == last.acted /\ last.given.type = type

Days(n) == n * MILLISECONDS_PER_DAY

\* in season at the instant processSeasonalProduct sampled
InSeasonGiven == last.given.seasonStartDate < last.t1 /\ last.t1 < last.given.seasonEndDate

DelayOf(p) == NotifyEvent("sendDelayNotification", p.name, p.leadTime, Null)
OutOfStockOf(p) == NotifyEvent("sendOutOfStockNotification", p.name, 0, Null)
ExpirationOf(p) == NotifyEvent("sendExpirationNotification", p.name, 0, p.expiryDate)

----------------------------------------------------------------------------
(* Claims *)

\* C1: through any sequence of processOrder calls run one after another, every
\* stored available stays >= 0, and decrementStock is only ever invoked on a
\* product whose available is > 0 when it is invoked.
C1_StockNeverNegative ==
    /\ \A id \in DOMAIN products : products[id].available >= 0
    /\ \A i \in DOMAIN last.ev :
          last.ev[i].kind = "call" /\ last.ev[i].op = "decrementStock"
              => last.ev[i].product.available > 0

\* the last unit of a product is taken by a later call, and the stock stops at 0
C1_Witness ==
    /\ started >= 2
    /\ last.acted /\ Called("decrementStock")
    /\ last.given.available = 1
    /\ Stored.available = 0

\* C2: a NORMAL product with available > 0, whatever its leadTime, ends with its
\* stored available one less than before, and nothing is notified.
C2_NormalInStockDecrements ==
    Processed(NORMAL) /\ last.given.available > 0
        => /\ Stored.available = last.given.available - 1
           /\ Notifications = <<>>

C2_Witness ==
    /\ Processed(NORMAL) /\ last.given.available = 2 /\ last.given.leadTime > 0
    /\ Stored.available = 1
    /\ Notifications = <<>>

\* C3: a NORMAL product with available = 0 and leadTime > 0 gets a delay
\* notification carrying its leadTime and its name, and its stored available
\* stays 0.
C3_NormalOutOfStockDelays ==
    Processed(NORMAL) /\ last.given.available = 0 /\ last.given.leadTime > 0
        => /\ Notifications = <<DelayOf(last.given)>>
           /\ Stored.available = 0

C3_Witness ==
    /\ Processed(NORMAL) /\ last.given.available = 0 /\ last.given.leadTime = 2
    /\ Notifications = <<NotifyEvent("sendDelayNotification", "USB Cable", 2, Null)>>
    /\ Stored.available = 0

\* C4: a NORMAL product with available = 0 and leadTime = 0 causes no repository
\* call, no write and no notification, and its stored record is what it was.
C4_NormalDiscontinuedNoAction ==
    Processed(NORMAL) /\ last.given.available = 0 /\ last.given.leadTime = 0
        => /\ last.ev = <<>>
           /\ Stored = last.given
           /\ ~last.threw

C4_Witness ==
    /\ Processed(NORMAL) /\ last.given.available = 0 /\ last.given.leadTime = 0
    /\ last.ev = <<>>
    /\ \E c \in Callers : calls[c].pc = "returned"

\* C5: an EXPIRABLE product with available > 0 whose expiryDate is strictly later
\* than the current time ends with its stored available one less than before,
\* and no expiration notification is sent.
C5_ExpirableFreshDecrements ==
    Processed(EXPIRABLE) /\ last.given.available > 0 /\ last.given.expiryDate > last.t1
        => /\ Stored.available = last.given.available - 1
           /\ ~Sent("sendExpirationNotification")

C5_Witness ==
    /\ Processed(EXPIRABLE) /\ last.given.available = 2
    /\ last.given.expiryDate > last.t1
    /\ Stored.available = 1
    /\ Notifications = <<>>

\* C6: an EXPIRABLE product with available = 0, or whose expiryDate is not
\* strictly later than the current time, gets an expiration notification carrying
\* its name and its expiryDate, and its stored available becomes 0.
C6_ExpirableExpiredOrEmpty ==
    Processed(EXPIRABLE) /\ (last.given.available = 0 \/ last.given.expiryDate <= last.t1)
        => /\ Notifications = <<ExpirationOf(last.given)>>
           /\ Stored.available = 0

\* expired on the very instant of expiry, with stock left
C6_Witness ==
    /\ Processed(EXPIRABLE) /\ last.given.available = 2
    /\ last.given.expiryDate = last.t1
    /\ Sent("sendExpirationNotification")
    /\ Stored.available = 0

\* C7: a SEASONAL product in season (seasonStartDate < now < seasonEndDate, both
\* strict) with available > 0 ends with its stored available one less than
\* before, and no out-of-stock notification is sent.
C7_SeasonalInSeasonDecrements ==
    Processed(SEASONAL) /\ InSeasonGiven /\ last.given.available > 0
        => /\ Stored.available = last.given.available - 1
           /\ ~Sent("sendOutOfStockNotification")

C7_Witness ==
    /\ Processed(SEASONAL) /\ InSeasonGiven /\ last.given.available = 2
    /\ Stored.available = 1
    /\ Notifications = <<>>

\* C8: a SEASONAL product in season with available = 0 and
\* now + leadTime days <= seasonEndDate gets a delay notification carrying its
\* leadTime and its name, gets no out-of-stock notification, and stays at 0.
C8_SeasonalRestockInTimeDelays ==
    (/\ Processed(SEASONAL) /\ InSeasonGiven /\ last.given.available = 0
     /\ last.t2 + Days(last.given.leadTime) <= last.given.seasonEndDate)
        => /\ Notifications = <<DelayOf(last.given)>>
           /\ Stored.available = 0

\* the restock falls on the very day the season ends
C8_Witness ==
    /\ Processed(SEASONAL) /\ InSeasonGiven /\ last.given.available = 0
    /\ last.given.leadTime > 0
    /\ last.t2 + Days(last.given.leadTime) = last.given.seasonEndDate
    /\ Notifications = <<DelayOf(last.given)>>

\* C9, as claimed: a SEASONAL product with now + leadTime days > seasonEndDate, in
\* season or not and whatever its available, gets an out-of-stock notification
\* and its stored available is forced to 0.
C9_AsClaimed ==
    Processed(SEASONAL) /\ last.t1 + Days(last.given.leadTime) > last.given.seasonEndDate
        => /\ Sent("sendOutOfStockNotification")
           /\ Stored.available = 0

\* C9, amended: a SEASONAL product with now + leadTime days > seasonEndDate that
\* is not both in season and in stock gets an out-of-stock notification and its
\* stored available is forced to 0 (in season and in stock, it is decremented).
C9_SeasonalRestockTooLate ==
    (/\ Processed(SEASONAL)
     /\ last.t2 + Days(last.given.leadTime) > last.given.seasonEndDate
     /\ ~(InSeasonGiven /\ last.given.available > 0))
        => /\ Notifications = <<OutOfStockOf(last.given)>>
           /\ Stored.available = 0

\* the season is over and stock is left: it is zeroed
C9_Witness ==
    /\ Processed(SEASONAL) /\ last.given.available = 2
    /\ last.given.seasonStartDate < last.given.seasonEndDate
    /\ last.given.seasonEndDate < last.t1
    /\ Sent("sendOutOfStockNotification")
    /\ Stored.available = 0

\* C10, as claimed: a SEASONAL product whose seasonStartDate is later than now,
\* for any leadTime and seasonEndDate, gets an out-of-stock notification and its
\* stored available is what it was.
C10_AsClaimed ==
    Processed(SEASONAL) /\ last.given.seasonStartDate > last.t2
        => /\ Sent("sendOutOfStockNotification")
           /\ Stored.available = last.given.available

\* C10, amended: a SEASONAL product whose seasonStartDate is later than now gets
\* an out-of-stock notification; its stored available is what it was when
\* now + leadTime days <= seasonEndDate, and is forced to 0 otherwise.
C10_SeasonNotStarted ==
    Processed(SEASONAL) /\ last.given.seasonStartDate > last.t2
        => /\ Notifications = <<OutOfStockOf(last.given)>>
           /\ last.t2 + Days(last.given.leadTime) <= last.given.seasonEndDate
                  => Stored.available = last.given.available
           /\ last.t2 + Days(last.given.leadTime) > last.given.seasonEndDate
                  => Stored.available = 0

\* the season opens later and the restock is in time: the stock is kept
C10_Witness ==
    /\ Processed(SEASONAL) /\ last.given.available = 2
    /\ last.given.seasonStartDate > last.t2
    /\ last.given.seasonStartDate < last.given.seasonEndDate
    /\ last.given.leadTime > 0
    /\ Sent("sendOutOfStockNotification")
    /\ Stored.available = 2

----------------------------------------------------------------------------
(* Reading a processOrder call *)

\* every event of the call, in the order they happened
RECURSIVE Events(_)
Events(trace) == IF trace = <<>> THEN <<>> ELSE Head(trace).ev \o Events(Tail(trace))

Asked(c) == calls[c].pc # "idle"
OrderExists(c) == calls[c].orderId \in DOMAIN orders

\* C11: processOrder with an id no order has ends in the order-not-found error,
\* having written no product record and sent no notification: the catalog is
\* what it was.
C11_MissingOrderFails ==
    \A c \in Callers :
        Asked(c) /\ ~OrderExists(c)
            => /\ calls[c].pc = "failed"
               /\ calls[c].error = "Order not found"
               /\ calls[c].result = 0
               /\ calls[c].trace = <<>>
               /\ products = calls[c].before

\* the missing order is asked for after an order that changed the catalog
C11_Witness ==
    \E c \in Callers :
        /\ calls[c].pc = "failed" /\ calls[c].orderId = nonExistentOrderId
        /\ started >= 2
        /\ products = calls[c].before
        /\ \E id \in DOMAIN products : products[id].available = MaxAvailable - 1

\* C12: processOrder on an existing order without line items does not fail and
\* returns that order's id, with no repository write and no notification.
C12_EmptyOrderSucceeds ==
    \A c \in Callers :
        (Asked(c) /\ OrderExists(c)) /\ orders[calls[c].orderId] = {}
            => /\ calls[c].pc \in {"running", "returned"}
               /\ calls[c].pc = "returned" => calls[c].result = calls[c].orderId
               /\ calls[c].trace = <<>>
               /\ products = calls[c].before

C12_Witness ==
    \E c \in Callers :
        /\ calls[c].pc = "returned" /\ calls[c].result = 2
        /\ orders[2] = {}
        /\ Events(calls[c].trace) = <<>>
        /\ products = calls[c].before

Running(c) == calls[c].pc = "running" /\ OrderExists(c)

\* every line item the call loaded has a type with a handler
KnownTypes(c) == \A i \in DOMAIN calls[c].loaded : calls[c].loaded[i].type \in PRODUCT_TYPE

\* the call returned the id asked for after one processProduct per line item,
\* each given the line item of its rank as loaded, none of them failing
Completed(c) ==
    /\ calls[c].pc = "returned"
    /\ calls[c].result = calls[c].orderId
    /\ Len(calls[c].trace) = Len(calls[c].loaded)
    /\ \A i \in DOMAIN calls[c].trace :
          /\ calls[c].trace[i].given = calls[c].loaded[i]
          /\ ~calls[c].trace[i].threw

\* C13: a processOrder call on an existing order whose line items all have a
\* known type, with no storage failure, eventually completes and returns the id
\* asked for, having run processProduct once on each line item, in the order the
\* repository returned them, one after the other.
C13_OrderCompletes ==
    (Running("a") /\ KnownTypes("a")) ~> Completed("a")

\* the three seeded line items were processed and each wrote
C13_Witness ==
    /\ Completed("a")
    /\ Len(calls["a"].loaded) = 3
    /\ \A i \in 1..3 : OfKind(calls["a"].trace[i].ev, "write") # <<>>

\* the record processProduct leaves stored when it is given p alone, with the
\* clock readings t1 and t2
Alone(p, t1, t2) == ApplyWrites((p.id :> p), processProduct(p, t1, t2).ev)[p.id]

\* line item i of the call was in the condition in which its handler decrements
Decrements(c, i) ==
    LET p == calls[c].loaded[i]
        t1 == calls[c].trace[i].t1
    IN  /\ p.available > 0
        /\ p.type \in PRODUCT_TYPE
        /\ p.type = EXPIRABLE => p.expiryDate > t1
        /\ p.type = SEASONAL => p.seasonStartDate < t1 /\ t1 < p.seasonEndDate

LineItemIds(c) == {calls[c].loaded[i].id : i \in DOMAIN calls[c].loaded}

\* C14: after processOrder returned, the stored record of each line item is what
\* processProduct given that product alone leaves stored, and every product that
\* is not a line item is as it was; when every line item was in its decrement
\* condition, each stored available went down by exactly 1 and no notification
\* was sent.
C14_ItemsIndependent ==
    \A c \in Callers :
        calls[c].pc = "returned"
            => /\ \A i \in DOMAIN calls[c].loaded :
                     products[calls[c].loaded[i].id] =
                        Alone(calls[c].before[calls[c].loaded[i].id],
                              calls[c].trace[i].t1, calls[c].trace[i].t2)
               /\ \A id \in DOMAIN products \ LineItemIds(c) :
                     products[id] = calls[c].before[id]
               /\ (\A i \in DOMAIN calls[c].loaded : Decrements(c, i))
                     => /\ \A i \in DOMAIN calls[c].loaded :
                              products[calls[c].loaded[i].id] =
                                 [calls[c].loaded[i] EXCEPT !.available = @ - 1]
                        /\ OfKind(Events(calls[c].trace), "notify") = <<>>

\* an order of a NORMAL, an EXPIRABLE and a SEASONAL product, all decremented
C14_Witness ==
    \E c \in Callers :
        /\ calls[c].pc = "returned"
        /\ {calls[c].loaded[i].type : i \in DOMAIN calls[c].loaded} = PRODUCT_TYPE
        /\ \A i \in DOMAIN calls[c].loaded :
              /\ Decrements(c, i)
              /\ products[calls[c].loaded[i].id].available = calls[c].loaded[i].available - 1
        /\ OfKind(Events(calls[c].trace), "notify") = <<>>

\* C15: one processProduct call issues at most one persistence write and at
\* most one notification.
C15_AtMostOneEach ==
    /\ last.acted => Len(Writes) <= 1 /\ Len(Notifications) <= 1
    /\ \A c \in Callers : \A i \in DOMAIN calls[c].trace :
          /\ Len(OfKind(calls[c].trace[i].ev, "write")) <= 1
          /\ Len(OfKind(calls[c].trace[i].ev, "notify")) <= 1

\* a call that did both: one write and one notification
C15_Witness ==
    /\ last.acted
    /\ Len(Writes) = 1
    /\ Len(Notifications) = 1

\* the table after the processProduct call of rank i of the call, from the table
\* as it was at load
RECURSIVE TableAfter(_, _)
TableAfter(c, i) ==
    IF i = 0 THEN calls[c].before
    ELSE ApplyWrites(TableAfter(c, i - 1), calls[c].trace[i].ev)

\* C16: when processProduct fails on line item k (the write fails, or the type
\* has no handler), processOrder ends in error and never returns {orderId}: no
\* line item after k is processed, none is processed again, and what the items
\* before k stored stays stored.
C16_FailureStopsTheOrder ==
    \A c \in Callers :
        /\ \A i \in DOMAIN calls[c].trace :
              calls[c].trace[i].threw => calls[c].pc = "failed" /\ i = Len(calls[c].trace)
        /\ (calls[c].pc = "failed" /\ OrderExists(c))
              => LET k == Len(calls[c].trace)
                 IN  /\ k \in DOMAIN calls[c].loaded
                     /\ calls[c].trace[k].threw
                     /\ calls[c].error = calls[c].trace[k].error
                     /\ calls[c].result = 0
                     /\ calls[c].idx = k
                     /\ \A i \in 1..k : calls[c].trace[i].given = calls[c].loaded[i]
                     /\ \A i \in 1..(k - 1) :
                           products[calls[c].loaded[i].id] =
                              Alone(calls[c].before[calls[c].loaded[i].id],
                                    calls[c].trace[i].t1, calls[c].trace[i].t2)
                     /\ \A i \in (k + 1)..Len(calls[c].loaded) :
                           products[calls[c].loaded[i].id] =
                              calls[c].before[calls[c].loaded[i].id]
                     /\ products = TableAfter(c, k)
                     /\ Len(SelectSeq(calls[c].trace[k].ev,
                                      LAMBDA x : x.kind = "call" /\ x.op = "updateProduct")) <= 1

\* the second of three line items failed after the first one changed its record
C16_Witness ==
    \E c \in Callers :
        /\ calls[c].pc = "failed"
        /\ Len(calls[c].loaded) = 3 /\ Len(calls[c].trace) = 2
        /\ products[calls[c].loaded[1].id] # calls[c].before[calls[c].loaded[1].id]
        /\ calls[c].error \in {"updateProduct", "processProduct"}

FirstIndex(ev, Test(_)) ==
    IF \E i \in DOMAIN ev : Test(ev[i])
    THEN CHOOSE i \in DOMAIN ev : Test(ev[i]) /\ \A j \in 1..(i - 1) : ~Test(ev[j])
    ELSE 0

IsWrite(x) == x.kind = "write"
IsDelay(x) == x.kind = "notify" /\ x.op = "sendDelayNotification"

\* C18: on the delay path the full record is written before
\* sendDelayNotification is invoked: a delay notification is preceded by the
\* write of the record; when the write fails no delay notification is sent;
\* when the notification fails the record written stays stored.
C18_WriteBeforeDelayNotification ==
    last.acted
        => /\ Sent("sendDelayNotification")
                => /\ Writes = <<WriteEvent(last.given)>>
                   /\ FirstIndex(last.ev, IsWrite) < FirstIndex(last.ev, IsDelay)
           /\ (last.threw /\ last.error = "updateProduct")
                => ~Sent("sendDelayNotification") /\ Writes = <<>>
           /\ (last.threw /\ last.error = "sendDelayNotification")
                => /\ Writes = <<WriteEvent(last.given)>>
                   /\ Stored = Writes[1].product
                   /\ Notifications = <<>>

\* the notification failed after the record was written
C18_Witness ==
    /\ last.acted /\ last.threw
    /\ last.error = "sendDelayNotification"
    /\ Called("updateProduct")
    /\ Stored = last.given

\* the call ran decrementStock on its line item and the write went through
Decremented(c) ==
    /\ \E j \in DOMAIN Events(calls[c].trace) :
          Events(calls[c].trace)[j] = CallEvent("decrementStock", calls[c].loaded[1])
    /\ OfKind(Events(calls[c].trace), "write") # <<>>

\* C19: processOrder calls that overlap on a product are not coordinated: each
\* processes the copy it loaded, whatever was stored since, and a write stores
\* the full record computed from that copy, so the record stored is the one of
\* the call that wrote last.
C19_LastWriterWins ==
    /\ \A c \in Callers : \A i \in DOMAIN calls[c].trace :
          calls[c].trace[i].given = calls[c].loaded[i]
    /\ (last.acted /\ Writes # <<>>)
          => /\ Stored = Writes[Len(Writes)].product
             /\ Stored = Alone(last.given, last.t1, last.t2)

\* the lost update: two calls decremented the product from the same stock and
\* the stored stock went down by one only
C19_Witness ==
    /\ Callers = {"a", "b"}
    /\ \A c \in Callers :
          /\ calls[c].pc = "returned"
          /\ calls[c].loaded[1].available = MaxAvailable
          /\ Decremented(c)
    /\ calls["a"].before = calls["b"].before
    /\ products[1].available = MaxAvailable - 1

\* the notifications of ev as a multiset
NotificationBag(ev) ==
    LET n == OfKind(ev, "notify")
    IN  [x \in {n[i] : i \in DOMAIN n} |-> Cardinality({i \in DOMAIN n : n[i] = x})]

\* two runs stored the same records and sent the same notifications
SameOutcome(r1, r2) ==
    /\ r1.table = r2.table
    /\ NotificationBag(r1.ev) = NotificationBag(r2.ev)

\* the call has loaded an order and not processed any line item yet
Loaded(c) == calls[c].pc = "running" /\ calls[c].trace = <<>>

\* whatever the order of the line items the call loaded, the loop run at the
\* present time leaves the same records and sends the same notifications
OrderIrrelevant(c) ==
    \A s \in Perms(DOMAIN calls[c].loaded) :
        SameOutcome(RunOrder(calls[c].before, [i \in DOMAIN s |-> calls[c].loaded[s[i]]], clock),
                    RunOrder(calls[c].before, calls[c].loaded, clock))

\* every clock reading of the call gave the same time
FixedTime(c) ==
    \A i \in DOMAIN calls[c].trace :
        /\ calls[c].trace[i].t1 = calls[c].trace[1].t1
        /\ calls[c].trace[i].t2 = calls[c].trace[1].t1

C21_SeasonalDelayOnlyInSeasonOutOfStock ==
    (/\ Processed(SEASONAL) /\ last.t1 = last.t2
     /\ last.given.seasonStartDate < last.given.seasonEndDate
     /\ Sent("sendDelayNotification"))
        => /\ last.given.seasonStartDate < last.t2
           /\ last.t2 < last.given.seasonEndDate
           /\ last.given.available = 0
           /\ last.t2 + Days(last.given.leadTime) <= last.given.seasonEndDate

\* a SEASONAL product in stock, processed at the instant its season starts:
\* it gets a delay notification and keeps its stock
C21_Witness ==
    /\ Processed(SEASONAL) /\ last.t1 = last.t2
    /\ last.given.seasonStartDate = last.t2
    /\ last.t2 < last.given.seasonEndDate
    /\ last.given.available = MaxAvailable /\ last.given.leadTime = 1
    /\ Notifications = <<DelayOf(last.given)>>
    /\ Stored.available = MaxAvailable

\* p and q are the same record but for available
SameButAvailable(p, q) == [p EXCEPT !.available = 0] = [q EXCEPT !.available = 0]

\* no product and no order is created or deleted, and no order is changed
NoRecordCreatedOrDeleted ==
    /\ DOMAIN products' = DOMAIN products
    /\ orders' = orders

\* C22 as stated: every change to a stored product is its available decreased by
\* exactly 1 or set to 0, every other field staying as stored before, and no
\* product or order record is created or deleted.
C22_AsClaimed ==
    [][/\ NoRecordCreatedOrDeleted
       /\ \A id \in DOMAIN products :
             \/ products'[id] = products[id]
             \/ products'[id] = [products[id] EXCEPT !.available = @ - 1]
             \/ products'[id] = [products[id] EXCEPT !.available = 0]]_vars

\* C22: every change to a stored product comes from a processProduct call on
\* that product and stores the record the call was given with, at most, its
\* available decreased by exactly 1 or set to 0; id, name, type, leadTime,
\* expiryDate, seasonStartDate and seasonEndDate stay as stored before, and no
\* product or order record is created or deleted.  (Against a record another
\* call stored since the load, available may go up.)
C22_OnlyAvailableChanges ==
    [][/\ NoRecordCreatedOrDeleted
       /\ \A id \in DOMAIN products :
             \/ products'[id] = products[id]
             \/ /\ last'.acted /\ last'.given.id = id
                /\ SameButAvailable(products'[id], products[id])
                /\ \/ products'[id] = last'.given
                   \/ products'[id] = [last'.given EXCEPT !.available = @ - 1]
                   \/ products'[id] = [last'.given EXCEPT !.available = 0]]_vars

\* a call wrote the record of its load over a lower stock that an overlapping
\* call had stored in between
C22_Witness ==
    /\ last.acted /\ Writes # <<>>
    /\ \E d \in Callers \ {last.caller} :
          /\ calls[d].trace # <<>>
          /\ OfKind(calls[d].trace[1].ev, "write") # <<>>
          /\ OfKind(calls[d].trace[1].ev, "write")[1].product.available < Stored.available

\* C23: over processOrder calls run one after another, the stored available of
\* a product never goes up from one state to the next, and once it is 0 it
\* stays 0.
C23_StockNeverRestocked ==
    [][\A id \in DOMAIN products :
          /\ products'[id].available <= products[id].available
          /\ products[id].available = 0 => products'[id].available = 0]_vars

\* in a second call, a product already at 0 is written again and stays at 0
C23_Witness ==
    /\ started >= 2
    /\ last.acted /\ Writes # <<>>
    /\ last.given.available = 0
    /\ Stored.available = 0
    /\ \E c \in Callers : calls[c].pc = "returned"

====
